---- MODULE Spec2Model ----
(***************************************************************************)
(* Model of ltc's app-runner command factory (package command_factory):    *)
(* the create / scale / update-routes / remove handlers, the convergence   *)
(* poller they share, and the pure resolvers for ports, routes and the     *)
(* environment.                                                            *)
(*                                                                         *)
(* Go strings that the code parses are modelled as sequences of one-       *)
(* character strings (<<"8","0">> is "80"), so that strings.Split,         *)
(* sort.Strings and strconv.Atoi are computed character by character.      *)
(***************************************************************************)
EXTENDS Integers, Sequences, FiniteSets, TLC

VARIABLES
    pc,                     \* where the running command handler is
    cmd,                    \* the command that was invoked ("none" before)
    timeout,                \* factory.timeout, in clock ticks
    now,                    \* the injected clock's time, in ticks
    startingTime,           \* pollUntilSuccess's startingTime
    request,                \* the submit call in flight to the cluster API
    ctx,                    \* locals the handler still uses after submitting
    results,                \* what the polling predicate returned, call by call
    reply,                  \* the cluster's reply to the last polling query
    placementErrorOccurred, \* the flag the predicate's closure captures
    ok,                     \* what pollUntilSuccess returned
    allRunning,             \* what pollUntilAllInstancesRunning returned
    log,                    \* calls on the collaborators (ui, cluster, clock, ...)
    portArgs,               \* arguments of a call of the port resolver alone
    portResult,             \* what that call returned
    routeArgs,              \* argument of a call of the route parser alone
    routeResult,            \* what that call returned
    envArgs,                \* arguments of a call of the environment resolver alone
    envResult               \* what that call returned

vars == <<pc, cmd, timeout, now, startingTime, request, ctx, results, reply,
          placementErrorOccurred, ok, allRunning, log, portArgs, portResult,
          routeArgs, routeResult, envArgs, envResult>>

cmdVars == <<pc, cmd, timeout, now, startingTime, request, ctx, results, reply,
             placementErrorOccurred, ok, allRunning, log>>

\* The calls of the pure resolvers, which no command handler touches.
pureVars == <<portArgs, portResult, routeArgs, routeResult, envArgs, envResult>>

None == "none"

(***************************************************************************)
(* Go standard library, as far as the package uses it.                     *)
(***************************************************************************)

\* Byte value of a character (ASCII), for the characters the inputs use.
Ord(c) ==
    CASE c = "+" -> 43 [] c = "," -> 44 [] c = "-" -> 45 [] c = "/" -> 47
      [] c = "0" -> 48 [] c = "1" -> 49 [] c = "2" -> 50 [] c = "3" -> 51
      [] c = "4" -> 52 [] c = "5" -> 53 [] c = "6" -> 54 [] c = "7" -> 55
      [] c = "8" -> 56 [] c = "9" -> 57 [] c = ":" -> 58 [] c = "=" -> 61
      [] c = "A" -> 65 [] c = "B" -> 66 [] c = "X" -> 88
      [] c = "a" -> 97 [] c = "b" -> 98 [] c = "c" -> 99 [] c = "e" -> 101
      [] c = "d" -> 100 [] c = "g" -> 103 [] c = "i" -> 105 [] c = "m" -> 109
      [] c = "p" -> 112 [] c = "r" -> 114 [] c = "v" -> 118 [] c = "w" -> 119
      [] c = "x" -> 120

IsDigit(c) == Ord(c) \in 48..57

\* strings.Split(s, sep) for a one-character separator: the pieces between
\* the separators, n+1 pieces for n separators (one empty piece for "").
RECURSIVE SplitFrom(_, _, _, _)
SplitFrom(s, sep, i, cur) ==
    IF i > Len(s) THEN <<cur>>
    ELSE IF s[i] = sep THEN <<cur>> \o SplitFrom(s, sep, i + 1, <<>>)
    ELSE SplitFrom(s, sep, i + 1, Append(cur, s[i]))

Split(s, sep) == SplitFrom(s, sep, 1, <<>>)

\* strings.Join(parts, sep) for a one-character separator.
RECURSIVE Join(_, _)
Join(parts, sep) ==
    IF parts = <<>> THEN <<>>
    ELSE IF Len(parts) = 1 THEN parts[1]
    ELSE parts[1] \o <<sep>> \o Join(Tail(parts), sep)

\* Go's string order: byte-wise lexicographic, a proper prefix first.
RECURSIVE StrLess(_, _)
StrLess(a, b) ==
    IF b = <<>> THEN FALSE
    ELSE IF a = <<>> THEN TRUE
    ELSE IF Ord(a[1]) # Ord(b[1]) THEN Ord(a[1]) < Ord(b[1])
    ELSE StrLess(Tail(a), Tail(b))

\* sort.Strings: the strings in ascending order (insertion into a sorted list).
RECURSIVE InsertSorted(_, _)
InsertSorted(x, sorted) ==
    IF sorted = <<>> THEN <<x>>
    ELSE IF StrLess(x, sorted[1]) THEN <<x>> \o sorted
    ELSE <<sorted[1]>> \o InsertSorted(x, Tail(sorted))

RECURSIVE SortStrings(_)
SortStrings(strs) ==
    IF strs = <<>> THEN <<>>
    ELSE InsertSorted(strs[1], SortStrings(Tail(strs)))

RECURSIVE DigitsValue(_, _)
DigitsValue(ds, acc) ==
    IF ds = <<>> THEN acc
    ELSE DigitsValue(Tail(ds), 10 * acc + (Ord(ds[1]) - 48))

\* strconv.Atoi: an optional sign and then one or more decimal digits;
\* anything else is an error (value 0).  The inputs stay far below the
\* int range, so the range error does not arise.
Atoi(s) ==
    LET signed == s # <<>> /\ s[1] \in {"+", "-"}
        digits == IF signed THEN Tail(s) ELSE s
        valid  == digits # <<>> /\ \A i \in 1..Len(digits) : IsDigit(digits[i])
        mag    == IF valid THEN DigitsValue(digits, 0) ELSE 0
    IN  [err |-> ~valid,
         val |-> IF signed /\ s[1] = "-" THEN 0 - mag ELSE mag]

\* The conversion uint16(x) of an int: x modulo 2^16.
Uint16(x) == x % 65536

\* strconv.Itoa of a number that is not negative: its decimal digits.
DigitChar(d) == <<"0", "1", "2", "3", "4", "5", "6", "7", "8", "9">>[d + 1]

RECURSIVE Itoa(_)
Itoa(n) ==
    IF n < 10 THEN <<DigitChar(n)>>
    ELSE Itoa(n \div 10) \o <<DigitChar(n % 10)>>

(***************************************************************************)
(* Port configuration resolver.                                            *)
(***************************************************************************)

MustSetMonitoredPortErrorMessage ==
    "Must set monitored-port when specifying multiple exposed ports unless --no-monitor is set."

InvalidPortErrorMessage ==
    "Invalid port specified. Ports must be a comma-delimited list of integers between 0-65535."

MalformedRouteErrorMessage ==
    "Malformed route. Routes must be of the format route:port"

\* docker_app_runner.PortConfig{}: the zero value returned beside an error.
EmptyPortConfig == [Monitored |-> 0, Exposed |-> <<>>]

\* PortConfig.IsEmpty (package docker_app_runner): no exposed port declared.
IsEmpty(portConfig) == Len(portConfig.Exposed) = 0

\* Which of the four branches of getPortConfigFromArgs is taken.
PortSourceNoMonitorFirst(portsFlag, noMonitorFlag, imageMetadata) ==
    IF portsFlag = <<>> /\ noMonitorFlag THEN "defaultUnmonitored"
    ELSE IF portsFlag = <<>> /\ ~IsEmpty(imageMetadata.Ports) THEN "metadata"
    ELSE IF portsFlag = <<>> THEN "default"
    ELSE "flag"

PortSource(portsFlag, noMonitorFlag, imageMetadata) ==
    IF portsFlag = <<>> /\ ~IsEmpty(imageMetadata.Ports) THEN "metadata"
    ELSE IF portsFlag = <<>> /\ IsEmpty(imageMetadata.Ports) /\ noMonitorFlag
    THEN "defaultUnmonitored"
    ELSE IF portsFlag = <<>> /\ IsEmpty(imageMetadata.Ports) THEN "default"
    ELSE "flag"

\* The check made on the split ports string before any token is converted.
MonitoredPortMissingOverTwo(portStrings, monitoredPortFlag, noMonitorFlag) ==
    Len(portStrings) > 2 /\ monitoredPortFlag = 0 /\ ~noMonitorFlag

MonitoredPortMissing(portStrings, monitoredPortFlag, noMonitorFlag) ==
    Len(portStrings) > 1 /\ monitoredPortFlag = 0 /\ ~noMonitorFlag

\* The loop of getPortConfigFromArgs over the sorted tokens: the converted
\* ports, or the error at the first token that fails.
RECURSIVE ConvertPorts(_, _)
ConvertPorts(portStrings, convertedPorts) ==
    IF portStrings = <<>> THEN [err |-> None, ports |-> convertedPorts]
    ELSE LET conv == Atoi(portStrings[1])
         IN  IF conv.err \/ conv.val > 65535
             THEN [err |-> InvalidPortErrorMessage, ports |-> <<>>]
             ELSE ConvertPorts(Tail(portStrings),
                               Append(convertedPorts, Uint16(conv.val)))

\* getPortConfigFromArgs: the PortConfig, the error (None for nil) and the
\* message said on the way.
getPortConfigFromArgs(portsFlag, monitoredPortFlag, noMonitorFlag, imageMetadata) ==
    LET source == PortSource(portsFlag, noMonitorFlag, imageMetadata)
    IN
    IF source = "metadata"
    THEN [portConfig |-> imageMetadata.Ports, err |-> None,
          said |-> <<"No port specified, using exposed ports from the image metadata.">>]
    ELSE IF source = "defaultUnmonitored"
    THEN [portConfig |-> [Monitored |-> 0, Exposed |-> <<8080>>], err |-> None,
          said |-> <<>>]
    ELSE IF source = "default"
    THEN [portConfig |-> [Monitored |-> 8080, Exposed |-> <<8080>>], err |-> None,
          said |-> <<"No port specified, image metadata did not contain exposed ports. Defaulting to 8080.">>]
    ELSE LET portStrings == Split(portsFlag, ",")
         IN  IF MonitoredPortMissing(portStrings, monitoredPortFlag, noMonitorFlag)
             THEN [portConfig |-> EmptyPortConfig,
                   err |-> MustSetMonitoredPortErrorMessage, said |-> <<>>]
             ELSE LET conv == ConvertPorts(SortStrings(portStrings), <<>>)
                  IN  IF conv.err # None
                      THEN [portConfig |-> EmptyPortConfig, err |-> conv.err,
                            said |-> <<>>]
                      ELSE [portConfig |->
                               [Monitored |-> IF Len(portStrings) > 1
                                              THEN Uint16(monitoredPortFlag)
                                              ELSE conv.ports[1],
                                Exposed |-> conv.ports],
                            err |-> None, said |-> <<>>]

(***************************************************************************)
(* Route override parser.                                                  *)
(***************************************************************************)

\* A parser that builds the list in reverse: each override goes to the front.
RECURSIVE ParseRoutesPrepending(_, _)
ParseRoutesPrepending(segments, routeOverrides) ==
    IF segments = <<>> THEN [routeOverrides |-> routeOverrides, err |-> None]
    ELSE IF segments[1] = <<>>
    THEN ParseRoutesPrepending(Tail(segments), routeOverrides)
    ELSE LET routeArr  == Split(segments[1], ":")
             maybePort == Atoi(routeArr[1])
         IN  IF maybePort.err \/ Len(routeArr) < 2
             THEN [routeOverrides |-> <<>>, err |-> MalformedRouteErrorMessage]
             ELSE ParseRoutesPrepending(Tail(segments),
                    << [HostnamePrefix |-> routeArr[2],
                        Port |-> Uint16(maybePort.val)] >> \o routeOverrides)

\* The loop of parseRouteOverrides over the comma-separated segments.  The
\* nil list is the empty sequence: the list is nil until the first append.
RECURSIVE ParseRoutes(_, _)
ParseRoutes(segments, routeOverrides) ==
    IF segments = <<>> THEN [routeOverrides |-> routeOverrides, err |-> None]
    ELSE IF segments[1] = <<>> THEN ParseRoutes(Tail(segments), routeOverrides)
    ELSE LET routeArr  == Split(segments[1], ":")
             maybePort == Atoi(routeArr[1])
         IN  IF maybePort.err \/ Len(routeArr) < 2
             THEN [routeOverrides |-> <<>>, err |-> MalformedRouteErrorMessage]
             ELSE ParseRoutes(Tail(segments),
                    Append(routeOverrides,
                           [HostnamePrefix |-> routeArr[2],
                            Port |-> Uint16(maybePort.val)]))

\* A parser that skips a malformed segment instead of failing.
RECURSIVE ParseRoutesSkipping(_, _)
ParseRoutesSkipping(segments, routeOverrides) ==
    IF segments = <<>> THEN [routeOverrides |-> routeOverrides, err |-> None]
    ELSE LET routeArr  == Split(segments[1], ":")
             maybePort == Atoi(routeArr[1])
         IN  IF segments[1] = <<>> \/ maybePort.err \/ Len(routeArr) < 2
             THEN ParseRoutesSkipping(Tail(segments), routeOverrides)
             ELSE ParseRoutesSkipping(Tail(segments),
                    Append(routeOverrides,
                           [HostnamePrefix |-> routeArr[2],
                            Port |-> Uint16(maybePort.val)]))

parseRouteOverridesSkipping(routes) ==
    ParseRoutesSkipping(Split(routes, ","), <<>>)

parseRouteOverrides(routes) == ParseRoutes(Split(routes, ","), <<>>)

(***************************************************************************)
(* Environment resolver.                                                   *)
(***************************************************************************)

\* strings.HasPrefix
HasPrefix(s, prefix) ==
    Len(s) >= Len(prefix) /\ SubSeq(s, 1, Len(prefix)) = prefix

\* parseEnvVarPair: <<name, value>>
parseEnvVarPair(envVarPair) ==
    LET s == Split(envVarPair, "=")
    IN  IF Len(s) > 1 THEN <<s[1], s[2]>> ELSE <<s[1], <<>>>>

RECURSIVE grabVarFromEnv(_, _)
grabVarFromEnv(env, name) ==
    IF env = <<>> THEN <<>>
    ELSE IF HasPrefix(env[1], name) THEN parseEnvVarPair(env[1])[2]
    ELSE grabVarFromEnv(Tail(env), name)

\* The loop of buildEnvironment; the map is a function from names to values.
RECURSIVE BuildEnv(_, _, _)
BuildEnv(env, envVars, environment) ==
    IF envVars = <<>> THEN environment
    ELSE LET pair  == parseEnvVarPair(envVars[1])
             name  == pair[1]
             value == IF pair[2] = <<>> THEN grabVarFromEnv(env, name)
                      ELSE pair[2]
         IN  BuildEnv(env, Tail(envVars),
                      [n \in DOMAIN environment \cup {name} |->
                          IF n = name THEN value ELSE environment[n]])

buildEnvironment(env, envVars) == BuildEnv(env, envVars, <<>>)

(***************************************************************************)
(* Inputs of the port resolver.                                            *)
(***************************************************************************)

MaxPortTokens == 2

\* Port tokens: empty, valid, at and past the upper limit, negative, signed,
\* non-numeric.
PortTokens ==
    { <<>>, <<"8","0">>, <<"8","0","8","0">>, <<"9">>, <<"1","0">>,
      <<"6","5","5","3","5">>, <<"6","5","5","3","6">>, <<"-","1">>,
      <<"+","7">>, <<"x">> }

SeqsUpTo(S, n) == UNION { [1..k -> S] : k \in 0..n }

PortsFlags == { Join(ts, ",") : ts \in SeqsUpTo(PortTokens, MaxPortTokens) }

MonitoredPortFlags == {0, 9, 80, 1234}

\* Image metadata port declarations that satisfy the PortConfig invariant.
MetadataPorts ==
    { EmptyPortConfig,
      [Monitored |-> 80, Exposed |-> <<80>>],
      [Monitored |-> 8080, Exposed |-> <<80, 8080>>] }

PortInputs ==
    [portsFlag : PortsFlags, monitoredPortFlag : MonitoredPortFlags,
     noMonitorFlag : BOOLEAN, metadataPorts : MetadataPorts]

(***************************************************************************)
(* The command handlers.                                                   *)
(*                                                                         *)
(* log records, in order, every call the handler makes on a collaborator:  *)
(* <<"Say", text>> or <<"Say", format, argument>> on the ui, the cluster   *)
(* API's methods by name, <<"Sleep", d>> on the clock, <<"Exit", code>> on *)
(* the exit handler, and the log streamer's two methods.  It also records  *)
(* the accesses of the flag that the predicate of                          *)
(* pollUntilAllInstancesRunning captures: the assignment                   *)
(* <<"placementErrorOccurred = true">> in the predicate and the test       *)
(* <<"if placementErrorOccurred">> after the poll.                         *)
(***************************************************************************)

MaxTimeout == 5
MaxInstances == 2

\* Clock ticks per second: timeouts need not be whole seconds.
TicksPerSecond == 2

\* The poll interval, 1 * time.Second.
PollInterval == 1 * TicksPerSecond

APP    == <<"a","p","p">>
IMG    == <<"i","m","g">>
DASHES == <<"-","-">>
CMD    == <<"c","m","d">>
ARG    == <<"a","r","g">>
WEB    == <<"w","e","b">>

\* context.Args().Get(i), i counted from 0: "" past the end.
Get(args, i) == IF i < Len(args) THEN args[i + 1] ELSE <<>>

Say(text) == <<"Say", text>>
SayF(format, arg) == <<"Say", format, arg>>

\* urlForApp
urlForApp(name) == SayF("http://%s.%s\n", name)

NoCtx == [name |-> <<>>, instances |-> 0, routesFlag |-> <<>>,
          routeOverrides |-> <<>>, action |-> "none"]

NoReply == [query |-> "none", running |-> 0, placementError |-> FALSE,
            appExists |-> FALSE, err |-> FALSE]

InitCmd ==
    /\ pc = "idle"
    /\ cmd = "none"
    /\ timeout \in 0..MaxTimeout
    /\ now = 0
    /\ startingTime = 0
    /\ request = <<>>
    /\ ctx = NoCtx
    /\ results = <<>>
    /\ reply = NoReply
    /\ placementErrorOccurred = FALSE
    /\ ok = FALSE
    /\ allRunning = FALSE
    /\ log = <<>>

pollVars == <<startingTime, results, reply, placementErrorOccurred, ok, allRunning>>

\* The handler returns before any submit call.
Return(events) ==
    /\ pc' = "done"
    /\ log' = log \o events
    /\ UNCHANGED <<request, ctx>>

\* The handler calls a submit method of the cluster API.
Submit(events, params, keep) ==
    /\ pc' = "submitted"
    /\ log' = log \o events \o << <<params.op>> >>
    /\ request' = <<params>>
    /\ ctx' = keep

(***************************************************************************)
(* create                                                                  *)
(***************************************************************************)

CreateArgs ==
    { <<>>, <<APP>>, <<APP, IMG>>, <<APP, IMG, DASHES>>,
      <<APP, IMG, DASHES, CMD>>, <<APP, IMG, <<"x">>, CMD>>,
      <<APP, IMG, DASHES, CMD, ARG>>, <<APP, IMG, <<"x">>, CMD, ARG>> }

\* cpu-weight after its conversion to uint.
CpuWeightFlags == {0, 1, 100, 101}

CreatePortsFlags == { <<>>, <<"8","0">>, <<"8","0",",","9">>, <<"x">> }

CreateMonitoredPortFlags == {0, 1234}

CreateRoutesFlags ==
    { <<>>, <<"8","0",":">> \o WEB,
      <<"8","0",":">> \o WEB \o <<",">>,
      <<"8","0",":">> \o WEB \o <<",","9",":","a">>,
      WEB }

WorkingDirFlags == { <<>>, <<"/","a">> }

EnvVarsFlags == { <<>>, << <<"A">> >> }

\* What FetchMetadata can return: an error, or the image's metadata.
ImageMetadatas ==
    [Ports : {EmptyPortConfig, [Monitored |-> 80, Exposed |-> <<80>>]},
     StartCommand : { <<>>, << <<"/","r">>, <<"-","x">> >> },
     WorkingDir : { <<>>, <<"/","w">> }]

MetadataReplies ==
    { [err |-> TRUE, meta |-> [Ports |-> EmptyPortConfig, StartCommand |-> <<>>,
                               WorkingDir |-> <<>>]] }
    \cup { [err |-> FALSE, meta |-> m] : m \in ImageMetadatas }

\* factory.env, the inherited environment.
FactoryEnv == << <<"A","B","=","2">>, <<"A","=","1">> >>

\* The switch that opens createApp: the usage error it reports, or None.
UsageError(args, cpuWeightFlag) ==
    LET terminator   == Get(args, 2)
        startCommand == Get(args, 3)
    IN  IF Len(args) < 2 THEN "APP_NAME and DOCKER_IMAGE are required"
        ELSE IF startCommand # <<>> /\ terminator # DASHES
        THEN "'--' Required before start command"
        ELSE IF Len(args) > 4 THEN None
        ELSE IF cpuWeightFlag < 1 \/ cpuWeightFlag > 100 THEN "Invalid CPU Weight"
        ELSE None

\* The working directory and what is said while it is resolved.
ResolveWorkingDir(workingDirFlag, imageMetadata) ==
    IF workingDirFlag # <<>> THEN [dir |-> workingDirFlag, said |-> <<>>]
    ELSE IF imageMetadata.WorkingDir # <<>>
    THEN [dir |-> imageMetadata.WorkingDir,
          said |-> << Say("No working directory specified, using working directory from the image metadata...\n"),
                      Say("Working directory is:\n"),
                      SayF("%s\n", imageMetadata.WorkingDir) >>]
    ELSE [dir |-> <<"/">>,
          said |-> << Say("No working directory specified, using working directory from the image metadata...\n") >>]

MonitorMessage(noMonitorFlag, portConfig) ==
    IF ~noMonitorFlag
    THEN SayF("Monitoring the app on port %d...\n", portConfig.Monitored)
    ELSE Say("No ports will be monitored.\n")

\* createApp up to its call of CreateDockerApp.  The request's Privileged,
\* MemoryMB and DiskMB are flag values passed through unread and are left out.
CreateApp ==
    /\ pc = "idle"
    /\ cmd' = "create"
    /\ UNCHANGED <<timeout, now, pollVars, pureVars>>
    /\ \E args \in CreateArgs, cpuWeightFlag \in CpuWeightFlags :
        LET name         == Get(args, 0)
            dockerImage  == Get(args, 1)
            startCommand == Get(args, 3)
            appArgs      == IF Len(args) > 4 THEN SubSeq(args, 5, Len(args)) ELSE <<>>
            usage        == UsageError(args, cpuWeightFlag)
        IN
        IF usage # None THEN Return(<< <<"IncorrectUsage", usage>> >>)
        ELSE \E fetched \in MetadataReplies :
        IF fetched.err THEN Return(<< Say("Error fetching image metadata: %s") >>)
        ELSE \E portsFlag \in CreatePortsFlags,
                monitoredPortFlag \in CreateMonitoredPortFlags,
                noMonitorFlag \in BOOLEAN :
        LET imageMetadata == fetched.meta
            resolved == getPortConfigFromArgs(portsFlag, monitoredPortFlag,
                                              noMonitorFlag, imageMetadata)
            said1    == [i \in 1..Len(resolved.said) |-> Say(resolved.said[i])]
        IN
        IF resolved.err # None THEN Return(said1 \o << Say(resolved.err) >>)
        ELSE \E workingDirFlag \in WorkingDirFlags :
        LET workingDir == ResolveWorkingDir(workingDirFlag, imageMetadata)
            said2 == said1 \o workingDir.said
                       \o << MonitorMessage(noMonitorFlag, resolved.portConfig) >>
            fromMetadata == startCommand = <<>>
            said3 == IF fromMetadata
                     THEN said2 \o
                          << Say("No start command specified, using start command from the image metadata...\n"),
                             Say("Start command is:\n"),
                             SayF("%s\n", Join(imageMetadata.StartCommand, " ")) >>
                     ELSE said2
        IN
        IF fromMetadata /\ Len(imageMetadata.StartCommand) = 0
        THEN Return(said2 \o
                    << <<"SayLine", "Unable to determine start command from image metadata.">> >>)
        ELSE \E routesFlag \in CreateRoutesFlags :
        LET parsed == parseRouteOverrides(routesFlag)
        IN
        IF parsed.err # None THEN Return(said3 \o << Say(parsed.err) >>)
        ELSE \E instancesFlag \in 1..MaxInstances, envVarsFlag \in EnvVarsFlags :
        Submit(said3,
               [op |-> "CreateDockerApp",
                Name |-> name,
                DockerImagePath |-> dockerImage,
                StartCommand |-> IF fromMetadata THEN imageMetadata.StartCommand[1]
                                 ELSE startCommand,
                AppArgs |-> IF fromMetadata THEN Tail(imageMetadata.StartCommand)
                            ELSE appArgs,
                EnvironmentVariables |-> buildEnvironment(FactoryEnv, envVarsFlag),
                Monitor |-> ~noMonitorFlag,
                Instances |-> instancesFlag,
                CPUWeight |-> cpuWeightFlag,
                Ports |-> resolved.portConfig,
                WorkingDir |-> workingDir.dir,
                RouteOverrides |-> parsed.routeOverrides],
               [name |-> name, instances |-> instancesFlag,
                routesFlag |-> routesFlag,
                routeOverrides |-> parsed.routeOverrides, action |-> "start"])

\* CreateDockerApp returns: an error ends the command; otherwise the log
\* streamer is started as a concurrent task and the poll begins.
CreateDockerAppReturns ==
    /\ pc = "submitted" /\ cmd = "create"
    /\ request' = <<>>
    /\ \E err \in BOOLEAN :
        IF err
        THEN /\ log' = Append(log, Say("Error Creating App: %s"))
             /\ pc' = "done"
             /\ UNCHANGED <<startingTime, placementErrorOccurred>>
        ELSE /\ log' = log \o << SayF("Creating App: %s\n", ctx.name),
                                  <<"go OutputTailedLogs", ctx.name>> >>
             /\ placementErrorOccurred' = FALSE
             /\ startingTime' = now
             /\ pc' = "poll"
    /\ UNCHANGED <<cmd, timeout, now, ctx, results, reply, ok, allRunning,
                   pureVars>>

(***************************************************************************)
(* scale                                                                   *)
(***************************************************************************)

ScaleArgs ==
    { <<>>, <<APP>>, <<APP, <<"x">> >>, <<APP, <<"1">> >>, <<APP, <<"2">> >> }

\* scaleApp and setAppInstances up to the call of ScaleApp.
ScaleApp ==
    /\ pc = "idle"
    /\ cmd' = "scale"
    /\ UNCHANGED <<timeout, now, pollVars, pureVars>>
    /\ \E args \in ScaleArgs :
        LET appName      == Get(args, 0)
            instancesArg == Get(args, 1)
            instances    == Atoi(instancesArg)
        IN
        IF appName = <<>> \/ instancesArg = <<>>
        THEN Return(<< <<"IncorrectUsage", "Please enter 'ltc scale APP_NAME NUMBER_OF_INSTANCES'">> >>)
        ELSE IF instances.err
        THEN Return(<< <<"IncorrectUsage", "Number of Instances must be an integer">> >>)
        ELSE Submit(<<>>,
                    [op |-> "ScaleApp", Name |-> appName, Instances |-> instances.val],
                    [NoCtx EXCEPT !.name = appName, !.instances = instances.val,
                                  !.action = "scale"])

ScaleAppReturns ==
    /\ pc = "submitted" /\ cmd = "scale"
    /\ request' = <<>>
    /\ \E err \in BOOLEAN :
        IF err
        THEN /\ log' = Append(log, SayF("Error Scaling App to %d instances: %s", ctx.instances))
             /\ pc' = "done"
             /\ UNCHANGED <<startingTime, placementErrorOccurred>>
        ELSE /\ log' = Append(log, SayF("Scaling %s to %d instances \n", ctx.name))
             /\ placementErrorOccurred' = FALSE
             /\ startingTime' = now
             /\ pc' = "poll"
    /\ UNCHANGED <<cmd, timeout, now, ctx, results, reply, ok, allRunning,
                   pureVars>>

(***************************************************************************)
(* update-routes                                                           *)
(***************************************************************************)

UpdateRoutesArgs ==
    { <<>>, <<APP>> } \cup { <<APP, r>> : r \in CreateRoutesFlags }

UpdateAppRoutes ==
    /\ pc = "idle"
    /\ cmd' = "updateRoutes"
    /\ UNCHANGED <<timeout, now, pollVars, pureVars>>
    /\ \E args \in UpdateRoutesArgs :
        LET appName           == Get(args, 0)
            userDefinedRoutes == Get(args, 1)
            desiredRoutes     == parseRouteOverrides(userDefinedRoutes)
        IN
        IF appName = <<>> \/ userDefinedRoutes = <<>>
        THEN Return(<< <<"IncorrectUsage", "Please enter 'ltc update-routes APP_NAME NEW_ROUTES'">> >>)
        ELSE IF desiredRoutes.err # None
        THEN Return(<< Say(desiredRoutes.err) >>)
        ELSE Submit(<<>>,
                    [op |-> "UpdateAppRoutes", Name |-> appName,
                     RouteOverrides |-> desiredRoutes.routeOverrides],
                    [NoCtx EXCEPT !.name = appName,
                                  !.routesFlag = userDefinedRoutes,
                                  !.routeOverrides = desiredRoutes.routeOverrides])

\* An update that goes on to wait once the request is accepted.
UpdateAppRoutesReturnsThenWaits ==
    /\ pc = "submitted" /\ cmd = "updateRoutes"
    /\ request' = <<>>
    /\ \E err \in BOOLEAN :
        /\ pc' = IF err THEN "done" ELSE "poll"
        /\ log' = Append(log,
                    IF err THEN Say("Error updating routes: %s")
                    ELSE SayF("Updating %s routes. You can check this app's current routes by running 'ltc status %s'",
                              ctx.name))
    /\ UNCHANGED <<cmd, timeout, now, ctx, pollVars, pureVars>>

UpdateAppRoutesReturns ==
    /\ pc = "submitted" /\ cmd = "updateRoutes"
    /\ request' = <<>>
    /\ pc' = "done"
    /\ \E err \in BOOLEAN :
        log' = Append(log,
                 IF err THEN Say("Error updating routes: %s")
                 ELSE SayF("Updating %s routes. You can check this app's current routes by running 'ltc status %s'",
                           ctx.name))
    /\ UNCHANGED <<cmd, timeout, now, ctx, pollVars, pureVars>>

(***************************************************************************)
(* remove                                                                  *)
(***************************************************************************)

RemoveArgs == { <<>>, <<APP>> }

RemoveApp ==
    /\ pc = "idle"
    /\ cmd' = "remove"
    /\ UNCHANGED <<timeout, now, pollVars, pureVars>>
    /\ \E args \in RemoveArgs :
        LET appName == Get(args, 0)
        IN
        IF appName = <<>>
        THEN Return(<< <<"IncorrectUsage", "App Name required">> >>)
        ELSE Submit(<<>>, [op |-> "RemoveApp", Name |-> appName],
                    [NoCtx EXCEPT !.name = appName])

\* A removal that reports the error of RemoveApp and polls all the same.
RemoveAppReturnsPollingOnError ==
    /\ pc = "submitted" /\ cmd = "remove"
    /\ request' = <<>>
    /\ \E err \in BOOLEAN :
        log' = Append(log, IF err THEN Say("Error Stopping App: %s")
                           ELSE SayF("Removing %s", ctx.name))
    /\ startingTime' = now
    /\ pc' = "poll"
    /\ UNCHANGED <<cmd, timeout, now, ctx, results, reply, placementErrorOccurred,
                   ok, allRunning, pureVars>>

RemoveAppReturns ==
    /\ pc = "submitted" /\ cmd = "remove"
    /\ request' = <<>>
    /\ \E err \in BOOLEAN :
        IF err
        THEN /\ log' = Append(log, Say("Error Stopping App: %s"))
             /\ pc' = "done"
             /\ UNCHANGED startingTime
        ELSE /\ log' = Append(log, SayF("Removing %s", ctx.name))
             /\ startingTime' = now
             /\ pc' = "poll"
    /\ UNCHANGED <<cmd, timeout, now, ctx, results, reply, placementErrorOccurred,
                   ok, allRunning, pureVars>>

(***************************************************************************)
(* The convergence poller, pollUntilSuccess, with outputProgress = true    *)
(* as every caller passes it.                                              *)
(***************************************************************************)

\* The loop condition: startingTime.Add(factory.timeout).After(clock.Now())
DeadlineAheadOrNow(start, limit, clockNow) == start + limit >= clockNow

DeadlineAheadOfNextPoll(start, limit, clockNow) ==
    start + limit > clockNow + 1 * TicksPerSecond

DeadlineAhead(start, limit, clockNow) == start + limit > clockNow

\* One pass of the loop body up to the sleep, given what the predicate
\* returned and the calls it made.
PollStep(result, events) ==
    /\ results' = Append(results, result)
    /\ IF result
       THEN /\ log' = log \o events \o << <<"NewLine">> >>
            /\ ok' = TRUE
            /\ pc' = "polled"
       ELSE /\ log' = log \o events \o << Say(".") >>
            /\ ok' = ok
            /\ pc' = "sleep"

PlacementErrorSaid ==
    Say("Error, could not place all instances: insufficient resources. Try requesting fewer instances or reducing the requested memory or disk capacity.")

\* The body of pollUntilAllInstancesRunning's predicate after its query: what
\* it does, in order (the assignment placementErrorOccurred = true is
\* recorded in the log as an event), whether it sets the flag, and the
\* result it returns.
InstancesPredicateGoingOn(placementError, numberOfRunningInstances, instances) ==
    [events |-> IF placementError
                THEN << PlacementErrorSaid, <<"placementErrorOccurred = true">> >>
                ELSE <<>>,
     setsFlag |-> placementError,
     result |-> numberOfRunningInstances = instances]

InstancesPredicate(placementError, numberOfRunningInstances, instances) ==
    IF placementError
    THEN [events |-> << PlacementErrorSaid, <<"placementErrorOccurred = true">> >>,
          setsFlag |-> TRUE, result |-> TRUE]
    ELSE [events |-> <<>>, setsFlag |-> FALSE,
          result |-> numberOfRunningInstances = instances]

\* The predicate of pollUntilAllInstancesRunning, on any reply of the cluster.
PollInstances ==
    /\ pc = "poll" /\ cmd \in {"create", "scale"}
    /\ DeadlineAhead(startingTime, timeout, now)
    /\ \E numberOfRunningInstances \in 0..MaxInstances,
          placementError \in BOOLEAN, err \in BOOLEAN :
        LET predicate == InstancesPredicate(placementError,
                             numberOfRunningInstances, ctx.instances)
        IN
        /\ reply' = [NoReply EXCEPT !.query = "RunningAppInstancesInfo",
                                    !.running = numberOfRunningInstances,
                                    !.placementError = placementError,
                                    !.err = err]
        /\ placementErrorOccurred' =
              IF predicate.setsFlag THEN TRUE ELSE placementErrorOccurred
        /\ PollStep(predicate.result,
                    << <<"RunningAppInstancesInfo", now>> >> \o predicate.events)
    /\ UNCHANGED <<cmd, timeout, now, startingTime, request, ctx, allRunning,
                   pureVars>>

\* What removeApp's predicate returns for a reply of AppExists.
AppRemovedDespiteError(appExists, err) == ~appExists

AppRemoved(appExists, err) == ~err /\ ~appExists

\* The predicate of removeApp.
PollExists ==
    /\ pc = "poll" /\ cmd = "remove"
    /\ DeadlineAhead(startingTime, timeout, now)
    /\ \E appExists \in BOOLEAN, err \in BOOLEAN :
        /\ reply' = [NoReply EXCEPT !.query = "AppExists",
                                    !.appExists = appExists, !.err = err]
        /\ PollStep(AppRemoved(appExists, err), << <<"AppExists", now>> >>)
    /\ UNCHANGED <<cmd, timeout, now, startingTime, request, ctx,
                   placementErrorOccurred, allRunning, pureVars>>

\* A Sleep that returns without the clock having advanced.
PollSleepOnFrozenClock ==
    /\ pc = "sleep"
    /\ now' = now
    /\ log' = Append(log, <<"Sleep", PollInterval>>)
    /\ pc' = "poll"
    /\ UNCHANGED <<cmd, timeout, pollVars, request, ctx, pureVars>>

\* factory.clock.Sleep(1 * time.Second) on a clock that the sleep advances.
PollSleep ==
    /\ pc = "sleep"
    /\ now' = now + PollInterval
    /\ log' = Append(log, <<"Sleep", PollInterval>>)
    /\ pc' = "poll"
    /\ UNCHANGED <<cmd, timeout, pollVars, request, ctx, pureVars>>

\* The loop condition fails: pollUntilSuccess returns false.
PollTimedOut ==
    /\ pc = "poll"
    /\ ~DeadlineAhead(startingTime, timeout, now)
    /\ log' = Append(log, <<"NewLine">>)
    /\ ok' = FALSE
    /\ pc' = "polled"
    /\ UNCHANGED <<cmd, timeout, now, startingTime, request, ctx, results, reply,
                   placementErrorOccurred, allRunning, pureVars>>

(***************************************************************************)
(* After the poll.                                                         *)
(***************************************************************************)

\* exitHandler.Exit(code).  The exit handler is an interface implemented in
\* package exit_handler; the call signals the exit code and control returns
\* to the statement after it.
ExitHandlerExit(code) == << <<"Exit", code>> >>

\* The decision that ends pollUntilAllInstancesRunning: whether the exit
\* handler is called, whether "took too long" is said, and the value returned.
AllInstancesOutcomeTrustingPoll(placementError, pollOk) ==
    [exit |-> placementError /\ ~pollOk, tooLong |-> ~pollOk, returned |-> pollOk]

AllInstancesOutcomeExitingOnTimeout(placementError, pollOk) ==
    [exit |-> placementError \/ ~pollOk, tooLong |-> ~placementError /\ ~pollOk,
     returned |-> ~placementError /\ pollOk]

AllInstancesOutcome(placementError, pollOk) ==
    IF placementError THEN [exit |-> TRUE, tooLong |-> FALSE, returned |-> FALSE]
    ELSE [exit |-> FALSE, tooLong |-> ~pollOk, returned |-> pollOk]

\* The end of pollUntilAllInstancesRunning: the flag is tested once.
PollUntilAllInstancesRunningReturns ==
    /\ pc = "polled" /\ cmd \in {"create", "scale"}
    /\ LET outcome == AllInstancesOutcome(placementErrorOccurred, ok)
       IN  /\ log' = log
                     \o << <<"if placementErrorOccurred">> >>
                     \o (IF outcome.exit THEN ExitHandlerExit("PlacementError") ELSE <<>>)
                     \o (IF outcome.tooLong
                         THEN << <<"SayLine", "%s took too long to %s.", ctx.action>> >>
                         ELSE <<>>)
           /\ allRunning' = outcome.returned
    /\ pc' = "returned"
    /\ UNCHANGED <<cmd, timeout, now, startingTime, request, ctx, results, reply,
                   placementErrorOccurred, ok, pureVars>>

\* The rest of setAppInstances.
SetAppInstancesFinish ==
    /\ pc = "returned" /\ cmd = "scale"
    /\ log' = IF allRunning THEN Append(log, Say("App Scaled Successfully")) ELSE log
    /\ pc' = "done"
    /\ UNCHANGED <<cmd, timeout, now, pollVars, request, ctx, pureVars>>

\* The URL loop of createApp over strings.Split(routesFlag, ","): what it
\* says, and whether strings.Split(route, ":")[1] is out of range for a segment.
RECURSIVE PrintRouteUrls(_, _)
PrintRouteUrls(routes, said) ==
    IF routes = <<>> THEN [said |-> said, panic |-> FALSE]
    ELSE LET routeArr == Split(routes[1], ":")
         IN  IF Len(routeArr) < 2 THEN [said |-> said, panic |-> TRUE]
             ELSE PrintRouteUrls(Tail(routes), Append(said, urlForApp(routeArr[2])))

\* defer factory.tailedLogsOutputter.StopOutputting(): the call made when
\* createApp leaves, by return or by panic.
StopOutputtingOnReturnOnly(panicking) ==
    IF panicking THEN <<>> ELSE << <<"StopOutputting">> >>

DeferredStopOutputting(panicking) == << <<"StopOutputting">> >>

\* The rest of createApp.
CreateAppFinish ==
    /\ pc = "returned" /\ cmd = "create"
    /\ LET said1 == IF allRunning THEN << SayF("%s is now running.\n", ctx.name) >>
                    ELSE <<>>
           urls  == IF ctx.routeOverrides # <<>>
                    THEN PrintRouteUrls(Split(ctx.routesFlag, ","), <<>>)
                    ELSE [said |-> << urlForApp(ctx.name) >>, panic |-> FALSE]
       IN  /\ log' = log \o said1 \o urls.said \o DeferredStopOutputting(urls.panic)
           /\ pc' = IF urls.panic THEN "panicked" ELSE "done"
    /\ UNCHANGED <<cmd, timeout, now, pollVars, request, ctx, pureVars>>

\* The rest of removeApp.
RemoveAppFinish ==
    /\ pc = "polled" /\ cmd = "remove"
    /\ log' = Append(log, IF ok THEN SayF("Successfully Removed %s.", ctx.name)
                          ELSE SayF("Failed to remove %s.", ctx.name))
    /\ pc' = "done"
    /\ UNCHANGED <<cmd, timeout, now, pollVars, request, ctx, pureVars>>

(***************************************************************************)
(* Specifications.                                                         *)
(***************************************************************************)

\* No command has run and no resolver has been called.
InitIdle ==
    /\ pc = "idle" /\ cmd = "none" /\ timeout = 0 /\ now = 0
    /\ startingTime = 0 /\ request = <<>> /\ ctx = NoCtx /\ results = <<>>
    /\ reply = NoReply /\ placementErrorOccurred = FALSE /\ ok = FALSE
    /\ allRunning = FALSE /\ log = <<>>

Init ==
    /\ InitCmd
    /\ portArgs = <<>> /\ portResult = <<>>
    /\ routeArgs = <<>> /\ routeResult = <<>>
    /\ envArgs = <<>> /\ envResult = <<>>

Next ==
    \/ CreateApp
    \/ CreateDockerAppReturns
    \/ ScaleApp
    \/ ScaleAppReturns
    \/ UpdateAppRoutes
    \/ UpdateAppRoutesReturns
    \/ RemoveApp
    \/ RemoveAppReturns
    \/ PollInstances
    \/ PollExists
    \/ PollSleep
    \/ PollTimedOut
    \/ PollUntilAllInstancesRunningReturns
    \/ SetAppInstancesFinish
    \/ CreateAppFinish
    \/ RemoveAppFinish

Spec == Init /\ [][Next]_vars

\* The steps of pollUntilSuccess.  The loop is sequential code on the
\* handler's goroutine: once entered it goes on running, the predicate's
\* synchronous query returns and so does the clock's Sleep.
PollerNext == PollInstances \/ PollExists \/ PollSleep \/ PollTimedOut

FairSpec == Init /\ [][Next]_vars /\ WF_vars(PollerNext)

\* portArgs holds the arguments of a call of the resolver and portResult what
\* the call returned; each is the empty sequence while there is none.
InitPorts ==
    /\ pc = "idle" /\ cmd = "none" /\ timeout = 0 /\ now = 0
    /\ startingTime = 0 /\ request = <<>> /\ ctx = NoCtx /\ results = <<>>
    /\ reply = NoReply /\ placementErrorOccurred = FALSE /\ ok = FALSE
    /\ allRunning = FALSE /\ log = <<>>
    /\ portArgs \in { <<a>> : a \in PortInputs }
    /\ portResult = <<>>
    /\ routeArgs = <<>> /\ routeResult = <<>>
    /\ envArgs = <<>> /\ envResult = <<>>

ResolvePorts ==
    /\ portArgs # <<>>
    /\ portResult = <<>>
    /\ portResult' = << getPortConfigFromArgs(portArgs[1].portsFlag,
                          portArgs[1].monitoredPortFlag, portArgs[1].noMonitorFlag,
                          [Ports |-> portArgs[1].metadataPorts]) >>
    /\ UNCHANGED <<cmdVars, portArgs, routeArgs, routeResult, envArgs, envResult>>

NextPorts == ResolvePorts

SpecPorts == InitPorts /\ [][NextPorts]_vars

\* The calls of the resolver in which the check for a missing monitored port
\* does not fire, so that every token of a ports string is converted.
InitPortsConverted ==
    /\ InitPorts
    /\ ~MonitoredPortMissing(Split(portArgs[1].portsFlag, ","),
                             portArgs[1].monitoredPortFlag,
                             portArgs[1].noMonitorFlag)

SpecPortsConverted == InitPortsConverted /\ [][NextPorts]_vars

(***************************************************************************)
(* The route parser alone.                                                 *)
(***************************************************************************)

MaxRouteSegments == 2

\* Route segments: empty, well formed, with a second colon, with an empty
\* prefix, without a colon, with a non-numeric, a negative and a too large
\* left part.
RouteSegments ==
    { <<>>, <<"8","0",":">> \o WEB, <<"9",":","a">>,
      <<"8","0",":","a",":","b">>, <<"8","0",":">>, WEB,
      <<"x",":">> \o WEB, <<"-","1",":">> \o WEB,
      <<"6","5","6","1","6",":">> \o WEB }

RouteStrings ==
    { Join(segs, ",") : segs \in SeqsUpTo(RouteSegments, MaxRouteSegments) }

\* routeArgs holds the routes string of a call of parseRouteOverrides and
\* routeResult what the call returned; each is empty while there is none.
InitRoutes ==
    /\ InitIdle
    /\ portArgs = <<>> /\ portResult = <<>>
    /\ routeArgs \in { <<r>> : r \in RouteStrings }
    /\ routeResult = <<>>
    /\ envArgs = <<>> /\ envResult = <<>>

ParseRouteOverrides ==
    /\ routeArgs # <<>>
    /\ routeResult = <<>>
    /\ routeResult' = << parseRouteOverrides(routeArgs[1]) >>
    /\ UNCHANGED <<cmdVars, portArgs, portResult, routeArgs, envArgs, envResult>>

NextRoutes == ParseRouteOverrides

SpecRoutes == InitRoutes /\ [][NextRoutes]_vars

(***************************************************************************)
(* The environment resolver alone.                                         *)
(***************************************************************************)

MaxEnvEntries == 2
MaxEnvTokens == 2

\* Entries of the inherited environment (os.Environ: NAME=VALUE).
InheritedEntries ==
    { <<"A","=","1">>, <<"A","B","=","2">>, <<"B","=">>, <<"A","=","b","=","c">> }

\* Tokens of the --env flag: bare names and NAME=VALUE pairs, the value
\* empty, plain, or with a "=" of its own.
EnvTokens ==
    { <<"A">>, <<"B">>, <<"X">>, <<"A","=">>, <<"A","=","x">>,
      <<"A","=","b","=","c">> }

EnvInputs ==
    [env : SeqsUpTo(InheritedEntries, MaxEnvEntries),
     envVars : SeqsUpTo(EnvTokens, MaxEnvTokens)]

\* envArgs holds factory.env and the tokens of a call of buildEnvironment and
\* envResult the map the call returned; each is empty while there is none.
InitEnv ==
    /\ InitIdle
    /\ portArgs = <<>> /\ portResult = <<>>
    /\ routeArgs = <<>> /\ routeResult = <<>>
    /\ envArgs \in { <<a>> : a \in EnvInputs }
    /\ envResult = <<>>

BuildEnvironment ==
    /\ envArgs # <<>>
    /\ envResult = <<>>
    /\ envResult' = << buildEnvironment(envArgs[1].env, envArgs[1].envVars) >>
    /\ UNCHANGED <<cmdVars, portArgs, portResult, routeArgs, routeResult, envArgs>>

NextEnv == BuildEnvironment

SpecEnv == InitEnv /\ [][NextEnv]_vars

(***************************************************************************)
(* Properties.                                                             *)
(***************************************************************************)

MutationOps == {"CreateDockerApp", "ScaleApp", "UpdateAppRoutes", "RemoveApp"}
QueryOps == {"RunningAppInstancesInfo", "AppExists"}

EventsOf(kinds) == { i \in 1..Len(log) : log[i][1] \in kinds }
HasEvent(kind) == EventsOf({kind}) # {}
HasSay(text) == \E i \in EventsOf({"Say", "SayLine"}) : log[i][2] = text

\* The number of times the polling predicate has been invoked.
Invocations == Cardinality(EventsOf(QueryOps))

AllFalse(rs) == \A i \in 1..Len(rs) : ~rs[i]

\* rs is k times false and then true, for some k.
FalseThenTrue(rs) ==
    /\ rs # <<>>
    /\ rs[Len(rs)]
    /\ AllFalse(SubSeq(rs, 1, Len(rs) - 1))

Terminated == pc \in {"done", "panicked"}

\* C1: when the predicate is false on its first k invocations and true on the
\* next, with k intervals shorter than the timeout, pollUntilSuccess returns
\* true after exactly k+1 invocations.  Stated on the state in which the
\* poller has returned: after k false results and a true one it returned true
\* and the predicate was invoked k+1 times; and the poller does not give up
\* after k false results while k intervals are shorter than the timeout, so
\* invocation k+1 is always made.
C1_ConvergesAfterKIntervals ==
    pc = "polled" =>
        /\ FalseThenTrue(results) =>
              /\ ok
              /\ Invocations = (Len(results) - 1) + 1
              /\ (Len(results) - 1) * PollInterval < timeout
        /\ AllFalse(results) => ~(Len(results) * PollInterval < timeout)

\* C1's case: the poller converged on its second or a later invocation.
C1_Witness ==
    /\ pc = "polled"
    /\ ok
    /\ Len(results) >= 2
    /\ FalseThenTrue(results)

\* C2, as claimed: for a predicate that never returns true the poller returns
\* false after exactly floor(timeout/interval)+1 invocations.
C2_TimedOutAfterFloorPlusOne ==
    (pc = "polled" /\ AllFalse(results)) =>
        /\ ~ok
        /\ Invocations = (timeout \div PollInterval) + 1

\* C2, amended: for a predicate that never returns true the poller returns
\* false after exactly ceil(timeout/interval) invocations, made at the times
\* 0, interval, 2*interval, ... that lie strictly before the timeout; and the
\* predicate is never invoked more than floor(timeout/interval)+1 times.
C2_TimedOutAfterCeil ==
    /\ (pc = "polled" /\ AllFalse(results)) =>
          /\ ~ok
          /\ Invocations = (timeout + PollInterval - 1) \div PollInterval
          /\ \A i \in EventsOf(QueryOps) : log[i][2] < startingTime + timeout
    /\ Invocations <= (timeout \div PollInterval) + 1

\* C2's case: the poller timed out after two or more invocations.
C2_Witness ==
    /\ pc = "polled"
    /\ ~ok
    /\ AllFalse(results)
    /\ Len(results) >= 2

SuccessSaid ==
    \/ HasSay("App Scaled Successfully")
    \/ HasSay("%s is now running.\n")

ExitedWith(code) == \E i \in EventsOf({"Exit"}) : log[i][2] = code

\* C3: in create and scale, once the instance-state query has reported a
\* placement error, no success message is ever said, and when
\* pollUntilAllInstancesRunning has returned it has called the exit handler
\* with the PlacementError code and returned false, whatever the running
\* count in that reply.
C3_PlacementErrorIsFatal ==
    reply.placementError =>
        /\ ~SuccessSaid
        /\ pc \in {"returned", "done", "panicked"} =>
              /\ ExitedWith("PlacementError")
              /\ ~allRunning

\* C3's case: a command ended after a reply that reported a placement error
\* and a running count equal to the requested count.
C3_Witness ==
    /\ Terminated
    /\ reply.placementError
    /\ reply.running = ctx.instances
    /\ ExitedWith("PlacementError")

StreamingStarted == HasEvent("go OutputTailedLogs")

StoppedAfterStart ==
    \E i \in EventsOf({"go OutputTailedLogs"}) :
        \E j \in EventsOf({"StopOutputting"}) : i < j

ValidationErrorSaid ==
    \/ HasSay(InvalidPortErrorMessage)
    \/ HasSay(MustSetMonitoredPortErrorMessage)
    \/ HasSay(MalformedRouteErrorMessage)
    \/ HasSay("Unable to determine start command from image metadata.")

\* A route segment that parseRouteOverrides must reject: not empty, and
\* without a colon or with a left part that is no integer.
MalformedSegment(segment) ==
    /\ segment # <<>>
    /\ LET colons == { i \in 1..Len(segment) : segment[i] = ":" }
           first  == IF colons = {} THEN Len(segment) + 1
                     ELSE CHOOSE i \in colons : \A j \in colons : i <= j
       IN  colons = {} \/ Atoi(SubSeq(segment, 1, first - 1)).err

HasMalformedSegment(routes) ==
    LET segments == Split(routes, ",")
    IN  \E i \in 1..Len(segments) : MalformedSegment(segments[i])

\* C5: in create and update-routes, when port resolution fails, route
\* parsing fails or no start command can be determined, the error is said
\* and the handler returns having made no call on the cluster API, the log
\* streamer or the clock; and no request is ever submitted for a routes
\* string that has a malformed segment, or without ports or a start command.
C5_ValidationAbortsBeforeMutation ==
    /\ ValidationErrorSaid =>
          /\ pc = "done"
          /\ request = <<>>
          /\ EventsOf(MutationOps \cup QueryOps
                       \cup {"go OutputTailedLogs", "Sleep"}) = {}
    /\ EventsOf({"CreateDockerApp", "UpdateAppRoutes"}) # {} =>
          ~HasMalformedSegment(ctx.routesFlag)
    /\ (request # <<>> /\ request[1].op = "CreateDockerApp") =>
          /\ request[1].Ports.Exposed # <<>>
          /\ request[1].StartCommand # <<>>

\* C5's case: create returned on a malformed routes flag.
C5_Witness ==
    /\ cmd = "create"
    /\ pc = "done"
    /\ HasSay(MalformedRouteErrorMessage)

\* C6: a create request is never submitted with a cpu-weight outside 1..100,
\* whatever the number of positional arguments.
C6_CpuWeightAlwaysValidated ==
    (request # <<>> /\ request[1].op = "CreateDockerApp") =>
        request[1].CPUWeight \in 1..100

PortCallDone == portArgs # <<>> /\ portResult # <<>>

RangeOf(seq) == { seq[i] : i \in 1..Len(seq) }

\* C7: every PortConfig the port resolver returns without error has
\* monitored = 0 or monitored among its exposed ports.
C7_MonitoredIsExposed ==
    (PortCallDone /\ portResult[1].err = None) =>
        \/ portResult[1].portConfig.Monitored = 0
        \/ portResult[1].portConfig.Monitored
              \in RangeOf(portResult[1].portConfig.Exposed)

\* C8: for a ports string of two or more comma-separated tokens, no
\* monitored-port flag and monitoring enabled, the resolver returns the
\* MustSetMonitoredPort error and the empty PortConfig; the tokens need not
\* be valid integers, for the check precedes their conversion.
C8_MustSetMonitoredPort ==
    (/\ PortCallDone
     /\ Len(Split(portArgs[1].portsFlag, ",")) >= 2
     /\ portArgs[1].monitoredPortFlag = 0
     /\ ~portArgs[1].noMonitorFlag) =>
        /\ portResult[1].err = MustSetMonitoredPortErrorMessage
        /\ portResult[1].portConfig = EmptyPortConfig

\* A token that parses as an integer in [0, 65535].
ValidPortToken(token) == ~Atoi(token).err /\ Atoi(token).val \in 0..65535

\* C8's case: two valid integers, no monitored-port flag, monitoring enabled.
C8_Witness ==
    /\ PortCallDone
    /\ LET tokens == Split(portArgs[1].portsFlag, ",")
       IN  /\ Len(tokens) = 2
           /\ \A i \in 1..Len(tokens) : ValidPortToken(tokens[i])
    /\ portArgs[1].monitoredPortFlag = 0
    /\ ~portArgs[1].noMonitorFlag
    /\ portResult[1].err = MustSetMonitoredPortErrorMessage

\* C9: for a ports string (one that is given, so not empty) with a token
\* that does not parse as an integer in [0, 65535], the resolver returns the
\* InvalidPort error and the empty PortConfig.
C9_InvalidTokenRejected ==
    (/\ PortCallDone
     /\ portArgs[1].portsFlag # <<>>
     /\ LET tokens == Split(portArgs[1].portsFlag, ",")
        IN  \E i \in 1..Len(tokens) : ~ValidPortToken(tokens[i])) =>
        /\ portResult[1].err = InvalidPortErrorMessage
        /\ portResult[1].portConfig = EmptyPortConfig

\* C10: with an empty ports flag and image metadata that declares an exposed
\* port, the resolver returns the metadata's PortConfig and no error, whatever
\* the monitored-port and no-monitor flags.
C10_MetadataPortsVerbatim ==
    (/\ PortCallDone
     /\ portArgs[1].portsFlag = <<>>
     /\ Len(portArgs[1].metadataPorts.Exposed) >= 1) =>
        /\ portResult[1].err = None
        /\ portResult[1].portConfig = portArgs[1].metadataPorts

\* C10's case: metadata ports used although both flags are set.
C10_Witness ==
    /\ PortCallDone
    /\ portArgs[1].portsFlag = <<>>
    /\ Len(portArgs[1].metadataPorts.Exposed) >= 2
    /\ portArgs[1].monitoredPortFlag # 0
    /\ portArgs[1].noMonitorFlag
    /\ portResult[1].portConfig = portArgs[1].metadataPorts

(***************************************************************************)
(* Properties of the route parser.                                         *)
(***************************************************************************)

RouteCallDone == routeArgs # <<>> /\ routeResult # <<>>

\* The position of the first c in a text, past its end when it has none.
FirstIndex(text, c) ==
    LET at == { i \in 1..Len(text) : text[i] = c }
    IN  IF at = {} THEN Len(text) + 1
        ELSE CHOOSE i \in at : \A j \in at : i <= j

FirstColon(segment) == FirstIndex(segment, ":")

LeftPart(segment) == SubSeq(segment, 1, FirstColon(segment) - 1)

AfterFirstColon(segment) == SubSeq(segment, FirstColon(segment) + 1, Len(segment))

\* A text that parses as an unsigned integer port: decimal digits only, with
\* a value of at most 65535.
ParsesAsPort(text) ==
    /\ text # <<>>
    /\ \A i \in 1..Len(text) : IsDigit(text[i])
    /\ DigitsValue(text, 0) <= 65535

\* A non-empty segment with fewer than two colon-separated parts or a left
\* part that does not parse as an unsigned integer port.
RejectedSegment(segment) ==
    /\ segment # <<>>
    /\ \/ FirstColon(segment) > Len(segment)
       \/ ~ParsesAsPort(LeftPart(segment))

\* C11: route parsing is all-or-nothing.  When any non-empty segment of the
\* routes string has fewer than two colon-separated parts or a left part that
\* does not parse as an unsigned integer port, parseRouteOverrides returns the
\* MalformedRoute error and the nil list, even after well-formed segments;
\* otherwise it returns no error.
C11_RouteParsingAllOrNothing ==
    RouteCallDone =>
        LET segments == Split(routeArgs[1], ",")
        IN  IF \E i \in 1..Len(segments) : RejectedSegment(segments[i])
            THEN /\ routeResult[1].err = MalformedRouteErrorMessage
                 /\ routeResult[1].routeOverrides = <<>>
            ELSE routeResult[1].err = None

\* The list serialized as comma-joined PORT:HOSTNAME_PREFIX segments.
SerializeRoutes(routeOverrides) ==
    Join([i \in 1..Len(routeOverrides) |->
            Itoa(routeOverrides[i].Port) \o <<":">>
              \o routeOverrides[i].HostnamePrefix],
         ",")

\* C12: route parsing round-trips.  For a routes string that parses without
\* error to a list, parsing the list's serialization yields no error and the
\* same list: same length, order, ports and prefixes.
C12_RouteParsingRoundTrips ==
    (RouteCallDone /\ routeResult[1].err = None) =>
        parseRouteOverrides(SerializeRoutes(routeResult[1].routeOverrides))
            = [routeOverrides |-> routeResult[1].routeOverrides, err |-> None]

\* C12's case: a string of two different overrides was parsed, and the
\* serialization of the list is not the string itself.
C12_Witness ==
    /\ RouteCallDone
    /\ routeResult[1].err = None
    /\ Len(routeResult[1].routeOverrides) = 2
    /\ routeResult[1].routeOverrides[1] # routeResult[1].routeOverrides[2]
    /\ SerializeRoutes(routeResult[1].routeOverrides) # routeArgs[1]

(***************************************************************************)
(* Properties of the environment resolver.                                 *)
(***************************************************************************)

EnvCallDone == envArgs # <<>> /\ envResult # <<>>

HasEquals(token) == FirstIndex(token, "=") <= Len(token)

\* NAME and VALUE of a text NAME=VALUE: what precedes the first "=" and
\* everything that follows it.
NameOf(token) == SubSeq(token, 1, FirstIndex(token, "=") - 1)

ValueOf(token) == SubSeq(token, FirstIndex(token, "=") + 1, Len(token))

\* Token i is the last token of the list for its name: the one whose
\* contribution the map keeps.
LastForItsName(envVars, i) ==
    \A j \in (i + 1)..Len(envVars) : NameOf(envVars[j]) # NameOf(envVars[i])

\* C13: every token that contains "=" contributes NAME -> VALUE verbatim,
\* VALUE being everything after the "=": the map holds that value for NAME
\* (unless a later token names NAME again), also when VALUE is empty and the
\* inherited environment has a value for NAME.
C13_PairContributesVerbatim ==
    EnvCallDone =>
        \A i \in 1..Len(envArgs[1].envVars) :
            LET token == envArgs[1].envVars[i]
            IN  (HasEquals(token) /\ LastForItsName(envArgs[1].envVars, i)) =>
                    /\ NameOf(token) \in DOMAIN envResult[1]
                    /\ envResult[1][NameOf(token)] = ValueOf(token)

\* The value of the first entry of the inherited environment whose name is
\* the given one, the empty string when there is none.
RECURSIVE InheritedValue(_, _)
InheritedValue(env, name) ==
    IF env = <<>> THEN <<>>
    ELSE IF NameOf(env[1]) = name THEN ValueOf(env[1])
    ELSE InheritedValue(Tail(env), name)

\* C14: a bare token NAME (no "=") maps NAME to the value of the first
\* inherited entry whose name equals NAME, and to the empty string when no
\* inherited entry has that name; an entry whose name only starts with NAME
\* is no match.
C14_BareNameInheritsByName ==
    EnvCallDone =>
        \A i \in 1..Len(envArgs[1].envVars) :
            LET token == envArgs[1].envVars[i]
            IN  (~HasEquals(token) /\ LastForItsName(envArgs[1].envVars, i)) =>
                    /\ token \in DOMAIN envResult[1]
                    /\ envResult[1][token] = InheritedValue(envArgs[1].env, token)

(***************************************************************************)
(* Properties of the waits of remove, create and scale.                    *)
(***************************************************************************)

\* pollUntilSuccess has returned: both its ways out end with ui.NewLine().
PollReturned == HasEvent("NewLine")

\* C15: remove, once RemoveApp is accepted, polls AppExists until the reply
\* is (false, nil): a predicate result is true exactly for such a reply, the
\* poll goes on after any other reply while the timeout allows, and success
\* is said only after a true result.  When the first poll returns
\* (false, nil) the command succeeds at once, with one existence query and no
\* sleep, and says "Successfully Removed <app>."; and remove never calls the
\* exit handler.
C15_RemovePollsUntilGone ==
    cmd = "remove" =>
        /\ ~HasEvent("Exit")
        /\ results # <<>> =>
              results[Len(results)] = (~reply.err /\ ~reply.appExists)
        /\ (pc = "polled" /\ AllFalse(results)) =>
              ~DeadlineAhead(startingTime, timeout, now)
        /\ HasSay("Successfully Removed %s.") => FalseThenTrue(results)
        /\ (results # <<>> /\ results[1]) =>
              /\ Invocations = 1
              /\ ~HasEvent("Sleep")
              /\ ok
              /\ pc \in {"polled", "done"}
              /\ pc = "done" => HasSay("Successfully Removed %s.")

\* C15's case: remove ended after a first poll that returned (false, nil).
C15_Witness ==
    /\ cmd = "remove"
    /\ pc = "done"
    /\ results = <<TRUE>>
    /\ ~reply.err /\ ~reply.appExists
    /\ HasSay("Successfully Removed %s.")

\* C16: in create and scale, when the wait has timed out and no placement
\* error was reported, pollUntilAllInstancesRunning says "<app> took too
\* long to <action>.", returns false, and neither then nor later is the exit
\* handler called or a success message said.
C16_TimeoutIsSoftFailure ==
    (/\ cmd \in {"create", "scale"}
     /\ pc \in {"returned", "done", "panicked"}
     /\ PollReturned
     /\ ~ok
     /\ ~placementErrorOccurred) =>
        /\ HasSay("%s took too long to %s.")
        /\ ~HasEvent("Exit")
        /\ ~SuccessSaid
        /\ ~allRunning

\* C16's case: create ended after a wait of two or more polls that timed out
\* without a placement error.
C16_Witness ==
    /\ cmd = "create"
    /\ pc = "done"
    /\ PollReturned
    /\ ~ok
    /\ ~placementErrorOccurred
    /\ Len(results) >= 2
    /\ HasSay("%s took too long to %s.")

(***************************************************************************)
(* Properties of the handlers' reports and submissions.                    *)
(***************************************************************************)

IsUrlSaid(event) ==
    event[1] = "Say" /\ Len(event) = 3 /\ event[2] = "http://%s.%s\n"

\* The names of the URLs said so far, in the order they were said.
UrlNamesSaid ==
    LET said == SelectSeq(log, IsUrlSaid)
    IN  [i \in 1..Len(said) |-> said[i][3]]

\* C17: create, when the instances have converged, ends without a runtime
\* fault having said exactly one URL per parsed route override, from the
\* override's hostname prefix and in override order, or exactly the URL of
\* the application name when there are no overrides; for every routes string
\* the parser accepts, empty segments included.
C17_OneUrlPerOverride ==
    (cmd = "create" /\ allRunning /\ Terminated) =>
        /\ pc = "done"
        /\ UrlNamesSaid =
              IF ctx.routeOverrides = <<>> THEN << ctx.name >>
              ELSE [i \in 1..Len(ctx.routeOverrides) |->
                      ctx.routeOverrides[i].HostnamePrefix]

WaitEvents == QueryOps \cup {"Sleep", "NewLine", "go OutputTailedLogs",
                             "StopOutputting", "Exit"}

\* C18: update-routes makes no convergence wait.  A run makes at most one
\* UpdateAppRoutes request and never calls the poller, a polling query, the
\* clock's Sleep, the log streamer or the exit handler; after the request it
\* only says that the routes are being updated, or the submission error.
C18_UpdateRoutesDoesNotWait ==
    cmd = "updateRoutes" =>
        /\ Cardinality(EventsOf({"UpdateAppRoutes"})) <= 1
        /\ EventsOf(WaitEvents) = {}
        /\ results = <<>>
        /\ pc \in {"submitted", "done"}
        /\ (pc = "done" /\ HasEvent("UpdateAppRoutes")) =>
              /\ log[Len(log) - 1][1] = "UpdateAppRoutes"
              /\ \/ HasSay("Updating %s routes. You can check this app's current routes by running 'ltc status %s'")
                 \/ HasSay("Error updating routes: %s")

\* C18's case: update-routes ended after an accepted request.
C18_Witness ==
    /\ cmd = "updateRoutes"
    /\ pc = "done"
    /\ HasEvent("UpdateAppRoutes")
    /\ ctx.routeOverrides # <<>>
    /\ HasSay("Updating %s routes. You can check this app's current routes by running 'ltc status %s'")

SubmitErrorSaid ==
    \/ HasSay("Error Creating App: %s")
    \/ HasSay("Error Scaling App to %d instances: %s")
    \/ HasSay("Error updating routes: %s")
    \/ HasSay("Error Stopping App: %s")

\* C20: submissions are not retried.  A run of create, scale, update-routes
\* or remove makes at most one submit call on the cluster API; when that call
\* returns an error the command says it and returns: the message is the last
\* thing it does, right after the submit call, with no polling query, no
\* sleep, no log streaming and no call of the exit handler.
C20_NoRetryOfSubmissions ==
    /\ Cardinality(EventsOf(MutationOps)) <= 1
    /\ SubmitErrorSaid =>
          /\ pc = "done"
          /\ EventsOf(WaitEvents) = {}
          /\ results = <<>>
          /\ log[Len(log)][1] = "Say"
          /\ log[Len(log) - 1][1] \in MutationOps

\* C20's case: create ended on an error of CreateDockerApp.
C20_Witness ==
    /\ cmd = "create"
    /\ pc = "done"
    /\ HasEvent("CreateDockerApp")
    /\ HasSay("Error Creating App: %s")

(***************************************************************************)
(* The overrides the route parser returns.                                 *)
(***************************************************************************)

NonEmpty(text) == text # <<>>

\* C19: for a routes string that parses without error the list has one
\* override per non-empty segment, in input order and with duplicate ports
\* kept; each segment is split on its first colon only, so that the prefix
\* is everything after the first colon ("80:a:b" has the prefix "a:b") and
\* the port is the integer value of the left part.
C19_OverridePerSegmentFirstColon ==
    (RouteCallDone /\ routeResult[1].err = None) =>
        LET segments == SelectSeq(Split(routeArgs[1], ","), NonEmpty)
            overrides == routeResult[1].routeOverrides
        IN  /\ Len(overrides) = Len(segments)
            /\ \A i \in 1..Len(segments) :
                  /\ overrides[i].HostnamePrefix = AfterFirstColon(segments[i])
                  /\ overrides[i].Port = Atoi(LeftPart(segments[i])).val

(***************************************************************************)
(* The flag placementErrorOccurred.                                        *)
(***************************************************************************)

FlagWrites == EventsOf({"placementErrorOccurred = true"})
FlagReads == EventsOf({"if placementErrorOccurred"})

\* C21: in a wait of pollUntilAllInstancesRunning the flag is set at most
\* once, and the predicate invocation that sets it then returns true: the
\* assignment is followed at once by the ui.NewLine() with which
\* pollUntilSuccess returns true, that invocation is the last of the wait (no
\* instance-state query and no sleep follows a reported placement error), and
\* the flag is tested only after the poll loop has ended, so after any
\* assignment to it.
C21_FlagSetOnceReadAfterPoll ==
    /\ Cardinality(FlagWrites) <= 1
    /\ placementErrorOccurred <=> FlagWrites # {}
    /\ \A w \in FlagWrites :
          /\ w < Len(log)
          /\ log[w + 1][1] = "NewLine"
          /\ results[Len(results)]
          /\ Len(results) = Invocations
          /\ ok
          /\ \A i \in EventsOf(QueryOps \cup {"Sleep"}) : i < w
    /\ Cardinality(FlagReads) <= 1
    /\ \A r \in FlagReads :
          /\ pc \in {"returned", "done", "panicked"}
          /\ \E n \in EventsOf({"NewLine"}) : n < r
          /\ \A i \in EventsOf(QueryOps \cup {"Sleep"}) \cup FlagWrites : i < r
    /\ pc \in {"returned", "done", "panicked"} /\ PollReturned /\ cmd \in {"create", "scale"}
          => FlagReads # {}

\* C21's case: the flag was set by the third or a later invocation of the
\* predicate and tested after the poll.
C21_Witness ==
    /\ Len(results) >= 3
    /\ FlagWrites # {}
    /\ FlagReads # {}
    /\ Terminated

(***************************************************************************)
(* The poller as a state machine.                                          *)
(***************************************************************************)

Polling == pc \in {"poll", "sleep"}

IsPollEvent(event) == event[1] \in QueryOps \cup {"Sleep"}

\* The predicate calls and the sleeps of the wait, in order.
PollEvents == SelectSeq(log, IsPollEvent)

\* The poller ends once and is not resumed; it ends converged (true, after a
\* true result) or timed out (false, all results false and the deadline
\* reached), never both; predicate calls and sleeps alternate beginning with
\* a call, call number k being made at start + (k-1) intervals, the first at
\* the start; and every call is made before start + timeout.
PollerSafety ==
    /\ PollReturned =>
          /\ ~Polling
          /\ Cardinality(EventsOf({"NewLine"})) = 1
    /\ pc = "polled" =>
          IF ok THEN FalseThenTrue(results)
          ELSE AllFalse(results) /\ ~DeadlineAhead(startingTime, timeout, now)
    /\ \A i \in 1..Len(PollEvents) :
          IF i % 2 = 1
          THEN /\ PollEvents[i][1] \in QueryOps
               /\ PollEvents[i][2] = startingTime + ((i - 1) \div 2) * PollInterval
               /\ PollEvents[i][2] < startingTime + timeout
          ELSE PollEvents[i][1] = "Sleep"

\* C22: under a clock that Sleep advances by the poll interval, every
\* invocation of pollUntilSuccess eventually returns, converged or timed out
\* and not both, and is not resumed; the first predicate call is made at the
\* start before any sleep, exactly one sleep separates consecutive calls, and
\* the predicate is never called at or past start + timeout.
C22_PollerTerminates ==
    /\ []PollerSafety
    /\ Polling ~> (pc = "polled")

\* C22's case: a wait of remove that timed out after three predicate calls,
\* each followed by a sleep.
C22_Witness ==
    /\ cmd = "remove"
    /\ pc = "polled"
    /\ ~ok
    /\ Len(results) = 3
    /\ Len(PollEvents) = 6

====
